---- MODULE Spec2Model ----
(***************************************************************************)
(* Radial Branch Generator (src/unnamed/part_000, lines 553-1527).         *)
(*                                                                         *)
(* One Generate click reads the dialog (readOptions), builds the tree     *)
(* level by level (generateStructure), reorders the layers and schedules   *)
(* the animation by a breadth-first walk (applyBranchAnimation).           *)
(*                                                                         *)
(* Numbers.  JavaScript numbers are modelled by exact arithmetic.  A       *)
(* quantity is a record [w, r] standing for  w + r/Den  in a fixed unit,   *)
(* with 0 <= r < Den and Den = 2147483646, the denominator of every value  *)
(* next() returns.  Units: angles in 1/AngleScale degree, radii in pixels, *)
(* times in 1/TimeScale second.  Floating-point rounding is not modelled.  *)
(* TLC's integers are 32 bits wide, so products that the script forms in   *)
(* double precision are computed here without wide intermediates.          *)
(***************************************************************************)
EXTENDS Integers, Sequences, FiniteSets, TLC

\* ------------------------------------------------------------------ bounds
\* Largest number of spokes, levels and children per node the dialog holds.
MaxLines == 4
MaxLevels == 3
MaxChildren == 2

\* ------------------------------------------------------- program constants
\* createRng: modulus and multiplier of the Lehmer generator, and the
\* denominator of next().
Modulus == 2147483647
Multiplier == 16807
Den == 2147483646
\* applyBranchAnimation: seed of the scheduler's generator when opts.seed
\* is falsy, and the affine transform of the seed otherwise.
FallbackSchedulerSeed == 123987
SeedFactor == 17
SeedShift == 53
\* computeRadius: floor of every radius.
MinRadius == 5
\* generateStructure: degrees of a full turn.
FullTurn == 360
\* One second in time units (a unit is 0.0001 s, the smallest duration the
\* scheduler names), and the durations of the source in these units.
TimeScale == 10000
MinLineDuration == 500
MinNodeDuration == 500
MinSmoothNodeDuration == 1
\* readOptions: limits of the integer fields.
LimitLines == 720
LimitLevels == 10
LimitChildren == 8
LimitSpread == 360
MinSeed == -2147483647
MaxSeed == 2147483646
\* DEFAULTS
DefaultInitialLines == 12
DefaultLevels == 3
DefaultChildrenPerNode == 2
DefaultBaseRadius == 250
DefaultRadiusStep == 180
DefaultRadiusJitter == 40
DefaultAngleJitter == 8
DefaultBranchSpread == 60
DefaultSeed == 12345
DefaultLineDuration == 3500
DefaultNodeDuration == 2200
DefaultChildStagger == 500
DefaultRandomOffset == 600

\* ------------------------------------------------------------- arithmetic
Max(a, b) == IF a >= b THEN a ELSE b
Min(a, b) == IF a <= b THEN a ELSE b

RECURSIVE Gcd(_, _)
Gcd(a, b) == IF b = 0 THEN a ELSE Gcd(b, a % b)
Lcm(a, b) == (a \div Gcd(a, b)) * b
RECURSIVE LcmUpTo(_)
LcmUpTo(n) == IF n <= 1 THEN 1 ELSE Lcm(LcmUpTo(n - 1), n)

\* Angles are kept in 1/AngleScale degree: every angle the builder forms
\* without jitter (360/initialLines, branchSpread * (c/(k-1) - 0.5)) is a
\* whole number of these units.
AngleScale == 2 * LcmUpTo(MaxLines) * LcmUpTo(Max(1, MaxChildren - 1))

\* The number i as a quantity.
Num(i) == [w |-> i, r |-> 0]
\* a + b
NumAdd(a, b) ==
    IF a.r >= Den - b.r
    THEN [w |-> a.w + b.w + 1, r |-> a.r - (Den - b.r)]
    ELSE [w |-> a.w + b.w, r |-> a.r + b.r]
\* a < b, a <= b, a > b
NumLess(a, b) == a.w < b.w \/ (a.w = b.w /\ a.r < b.r)
NumLeq(a, b) == a.w < b.w \/ (a.w = b.w /\ a.r <= b.r)
NumMax(a, b) == IF NumLess(a, b) THEN b ELSE a
\* k * a for a whole number k >= 0, by doubling.
RECURSIVE NumTimes(_, _)
NumTimes(k, a) ==
    IF k = 0 THEN Num(0)
    ELSE LET h == NumTimes(k \div 2, a)
             d == NumAdd(h, h)
         IN  IF k % 2 = 1 THEN NumAdd(d, a) ELSE d

\* ---------------------------------------------------------- wide integers
\* An integer too wide for 32 bits is kept as [q, r] = q * Modulus + r with
\* q and r of one sign and |r| < Modulus, so that JavaScript's
\* x % 2147483647 (the remainder has the sign of x) is r.
Wide(i) ==
    IF i >= 0
    THEN [q |-> i \div Modulus, r |-> i % Modulus]
    ELSE [q |-> -((-i) \div Modulus), r |-> -((-i) % Modulus)]
\* a + b for a, b >= 0
WideAdd(a, b) ==
    IF a.r >= Modulus - b.r
    THEN [q |-> a.q + b.q + 1, r |-> a.r - (Modulus - b.r)]
    ELSE [q |-> a.q + b.q, r |-> a.r + b.r]
\* k * a for k, a >= 0, by doubling
RECURSIVE WideTimes(_, _)
WideTimes(k, a) ==
    IF k = 0 THEN Wide(0)
    ELSE LET h == WideTimes(k \div 2, a)
             d == WideAdd(h, h)
         IN  IF k % 2 = 1 THEN WideAdd(d, a) ELSE d
\* a - b for a >= b >= 0, b < Modulus
WideSub(a, b) ==
    IF a.r >= b THEN [q |-> a.q, r |-> a.r - b]
    ELSE [q |-> a.q - 1, r |-> a.r + (Modulus - b)]
WideNeg(a) == [q |-> -a.q, r |-> -a.r]

\* ------------------------------------------------- deterministic generator
\* createRng folding only negative remainders (value < 0).
createRngStrict(seed) ==
    LET value == seed.r
    IN  IF value < 0 THEN value + Den ELSE value

\* createRng, lines 907-910: the initial state for a seed.
createRng(seed) ==
    LET value == seed.r
    IN  IF value <= 0 THEN value + Den ELSE value

\* structureSeed without the default: opts.seed passed as it is.
structureSeedNoDefault(opts) == Wide(opts.seed)

\* The argument of createRng in generateStructure: opts.seed || 1.
structureSeed(opts) == IF opts.seed # 0 THEN Wide(opts.seed) ELSE Wide(1)

\* The argument of createRng in applyBranchAnimation:
\* opts.seed ? opts.seed * 17 + 53 : 123987.
schedulerSeed(opts) ==
    IF opts.seed = 0 THEN Wide(FallbackSchedulerSeed)
    ELSE IF opts.seed > 0
    THEN WideAdd(WideTimes(SeedFactor, Wide(opts.seed)), Wide(SeedShift))
    ELSE LET m == WideTimes(SeedFactor, Wide(-opts.seed))
         IN  IF m.q = 0 /\ m.r < SeedShift THEN Wide(SeedShift - m.r)
             ELSE WideNeg(WideSub(m, SeedShift))

\* next(), line 913: value = (value * 16807) % 2147483647.  The product is
\* formed by Schrage's decomposition, which equals it for 0 <= value <
\* Modulus and needs no integer wider than 32 bits.
nextState(value) ==
    LET q == Modulus \div Multiplier
        r == Modulus % Multiplier
        t == Multiplier * (value % q) - r * (value \div q)
    IN  IF t < 0 THEN t + Modulus ELSE t

\* next(), line 914: the value returned, (value - 1) / 2147483646, for the
\* state after the step.
nextValue(value) ==
    IF value >= 1 THEN [w |-> 0, r |-> value - 1]
    ELSE [w |-> -1, r |-> Den - 1]

\* range(minValue, maxValue), line 917, called in generator state value:
\* the number returned and the state left behind.
range(value, minValue, maxValue) ==
    LET v == nextState(value)
    IN  [result |-> NumAdd(Num(minValue), NumTimes(maxValue - minValue, nextValue(v))),
         value |-> v]

\* ------------------------------------------------------------- the dialog
\* The text of an edit field: a number, or text that parses to NaN.
Text(v) == [nan |-> FALSE, val |-> v]
NotANumber == [nan |-> TRUE, val |-> 0]
\* An absent minValue / maxValue argument of readInt and readFloat.
NoMax == 2147483647

\* readInt / readFloat, lines 792-820: parse, fall back on NaN, clamp.
readInt(editField, fallback, minValue, maxValue) ==
    LET val == IF editField.nan THEN fallback ELSE editField.val
    IN  Min(maxValue, Max(minValue, val))
readFloat(editField, fallback, minValue, maxValue) ==
    LET val == IF editField.nan THEN fallback ELSE editField.val
    IN  Min(maxValue, Max(minValue, val))

\* readOptions, lines 822-855: the options that reach the generator.
readOptions(f) ==
    [initialLines     |-> readInt(f.initialLines, DefaultInitialLines, 1, LimitLines),
     levels           |-> readInt(f.levels, DefaultLevels, 1, LimitLevels),
     childrenPerNode  |-> readInt(f.childrenPerNode, DefaultChildrenPerNode, 1, LimitChildren),
     baseRadius       |-> readFloat(f.baseRadius, DefaultBaseRadius, 1, NoMax),
     radiusStep       |-> readFloat(f.radiusStep, DefaultRadiusStep, 0, NoMax),
     radiusJitter     |-> readFloat(f.radiusJitter, DefaultRadiusJitter, 0, NoMax),
     angleJitter      |-> readFloat(f.angleJitter, DefaultAngleJitter, 0, NoMax),
     branchSpread     |-> readFloat(f.branchSpread, DefaultBranchSpread, 0, LimitSpread),
     lineDuration     |-> readFloat(f.lineDuration, DefaultLineDuration, MinLineDuration, NoMax),
     nodeDuration     |-> readFloat(f.nodeDuration, DefaultNodeDuration, MinNodeDuration, NoMax),
     childStagger     |-> readFloat(f.childStagger, DefaultChildStagger, 0, NoMax),
     randomOffset     |-> Max(0, readFloat(f.randomOffset, DefaultRandomOffset, 0, NoMax)),
     seed             |-> readInt(f.seed, DefaultSeed, MinSeed, MaxSeed),
     useActiveComp    |-> f.useActiveComp,
     simultaneousRoot |-> f.simultaneousRoot,
     smoothFlow       |-> f.smoothFlow]

\* The dialog after readOptions: readInt and readFloat leave in every edit
\* field they read the value they return, editField.text = val.toString(),
\* lines 803 and 818; the checkboxes are read only.
fieldsAfterRead(f) ==
    [f EXCEPT
       !.initialLines    = Text(readInt(f.initialLines, DefaultInitialLines, 1, LimitLines)),
       !.levels          = Text(readInt(f.levels, DefaultLevels, 1, LimitLevels)),
       !.childrenPerNode = Text(readInt(f.childrenPerNode, DefaultChildrenPerNode, 1,
                                        LimitChildren)),
       !.baseRadius      = Text(readFloat(f.baseRadius, DefaultBaseRadius, 1, NoMax)),
       !.radiusStep      = Text(readFloat(f.radiusStep, DefaultRadiusStep, 0, NoMax)),
       !.radiusJitter    = Text(readFloat(f.radiusJitter, DefaultRadiusJitter, 0, NoMax)),
       !.angleJitter     = Text(readFloat(f.angleJitter, DefaultAngleJitter, 0, NoMax)),
       !.branchSpread    = Text(readFloat(f.branchSpread, DefaultBranchSpread, 0, LimitSpread)),
       !.lineDuration    = Text(readFloat(f.lineDuration, DefaultLineDuration,
                                          MinLineDuration, NoMax)),
       !.nodeDuration    = Text(readFloat(f.nodeDuration, DefaultNodeDuration,
                                          MinNodeDuration, NoMax)),
       !.childStagger    = Text(readFloat(f.childStagger, DefaultChildStagger, 0, NoMax)),
       !.randomOffset    = Text(readFloat(f.randomOffset, DefaultRandomOffset, 0, NoMax)),
       !.seed            = Text(readInt(f.seed, DefaultSeed, MinSeed, MaxSeed))]

\* ------------------------------------------------------------------ state
VARIABLES
    fields,            \* the dialog: the text of the edit fields, the checkboxes
    clicks,            \* Generate clicks still to come
    pc,                \* where the click handler is
    opts,              \* readOptions() of the running click
    rng,               \* state of generateStructure's generator
    nodeObjs,          \* the node objects, by id + 1
    lineInfos,         \* generateStructure's lineInfos, in creation order
    nodes,             \* generateStructure's nodes: ids per finished level
    levelNodes,        \* ids of the level being built
    level, p, c,       \* loop counters of generateStructure
    nodeSerial,
    connectionSerial,
    schedRng,          \* state of applyBranchAnimation's generator
    queue,             \* applyBranchAnimation's queue of node ids
    current,           \* the node dequeued, or NoNode
    i,                 \* index into current's children
    maxTime,
    progress,          \* startProgress / endProgress set on lines and nodes
    layers,            \* the layer stack of the target composition, top first
    shifted,           \* the nodes queue.shift() has returned, in order
    undoLog,           \* the host's undo calls: "begin" and "end", in order
    alerts,            \* the messages alert() has shown
    runs               \* what each finished click produced

vars == <<fields, clicks, pc, opts, rng, nodeObjs, lineInfos, nodes, levelNodes,
          level, p, c, nodeSerial, connectionSerial, schedRng, queue, current, i,
          maxTime, progress, layers, shifted, undoLog, alerts, runs>>

buildVars == <<rng, nodeObjs, lineInfos, nodes, levelNodes, level, p, c,
               nodeSerial, connectionSerial>>
animVars == <<schedRng, queue, current, i, maxTime, progress, shifted>>
handlerVars == <<undoLog, alerts>>

\* The number of the click that is running or comes next, from 1: one more
\* than the undo groups closed so far.
clickNumber == Len(undoLog) \div 2 + 1

\* null, for a node reference and for a line reference
NoNode == -1
NoLine == 0
\* a time not yet assigned (lineInfo.startTime before scheduling)
Unset == [w |-> 0, r |-> 0, unset |-> TRUE]
NoOpts == [seed |-> 0]
\* no generator created yet
NoGenerator == -1

\* The node object of id n.
Node(n) == nodeObjs[n + 1]

\* --------------------------------------------------------------- geometry
\* polarToCartesian, lines 926-932: the point at radius and angleDeg around
\* the fixed centre.  Sine and cosine are not evaluated: the point is named
\* by its polar coordinates.
polarToCartesian(radius, angleDeg) == [radius |-> radius, angleDeg |-> angleDeg]

\* computeRadius without the floor of 5.
computeRadiusNoFloor(lvl, o, value) ==
    LET base == o.baseRadius + (lvl - 1) * o.radiusStep
        jitter == IF o.radiusJitter > 0
                  THEN range(value, -o.radiusJitter, o.radiusJitter)
                  ELSE [result |-> Num(0), value |-> value]
    IN  [radius |-> NumAdd(Num(base), jitter.result),
         value |-> jitter.value]

\* computeRadius with the step added once, whatever the level.
computeRadiusFlat(lvl, o, value) ==
    LET base == o.baseRadius + o.radiusStep
        jitter == IF o.radiusJitter > 0
                  THEN range(value, -o.radiusJitter, o.radiusJitter)
                  ELSE [result |-> Num(0), value |-> value]
    IN  [radius |-> NumMax(Num(MinRadius), NumAdd(Num(base), jitter.result)),
         value |-> jitter.value]

\* computeRadius, lines 934-939, with the generator in state value: the
\* radius and the state left behind.
computeRadius(lvl, o, value) ==
    LET base == o.baseRadius + (lvl - 1) * o.radiusStep
        jitter == IF o.radiusJitter > 0
                  THEN range(value, -o.radiusJitter, o.radiusJitter)
                  ELSE [result |-> Num(0), value |-> value]
    IN  [radius |-> NumMax(Num(MinRadius), NumAdd(Num(base), jitter.result)),
         value |-> jitter.value]

\* angleJitterDraw guarded by the scheduler's randomOffset > 0.
angleJitterDrawOnOffset(o, value) ==
    IF o.randomOffset > 0
    THEN range(value, -o.angleJitter * AngleScale, o.angleJitter * AngleScale)
    ELSE [result |-> Num(0), value |-> value]

\* The angle jitter drawn for a new node, lines 1486 and 1502.
angleJitterDraw(o, value) ==
    IF o.angleJitter > 0
    THEN range(value, -o.angleJitter * AngleScale, o.angleJitter * AngleScale)
    ELSE [result |-> Num(0), value |-> value]

\* A layer of the composition: the null or the circle of node `of`, the
\* shape layer of line `of` (its place in lineInfos), the animation
\* controller, or a layer that was there before; run tells the layers of
\* one click from the equally named layers of another.
Layer(kind, of, run) == [kind |-> kind, of |-> of, run |-> run]

\* comp.layers.addNull() / addShape(): the host puts a new layer on top of
\* the stack (index 1).  circleLayer.moveBefore(node.nullLayer), line 965,
\* finds the circle already just above the null added right before it.
addLayer(stack, layer) == <<layer>> \o stack

\* addNode, lines 969-998: the node object.
addNode(position, angle, radius, lvl, id, run) ==
    [id |-> id, level |-> lvl, angle |-> angle, radius |-> radius,
     position |-> position,
     nullLayer |-> Layer("null", id, run), circleLayer |-> Layer("circle", id, run),
     parent |-> NoNode, children |-> <<>>, incomingLine |-> NoLine,
     inTime |-> Num(0), outTime |-> Num(0),
     animStart |-> Num(0), animEnd |-> Num(0)]

\* addConnectionLine with childNode.parent left unset.
addConnectionLineNoParent(objs, parentId, child, line) ==
    LET linked == [child EXCEPT !.incomingLine = line]
        all == Append(objs, linked)
    IN  [all EXCEPT ![parentId + 1].children = Append(@, line)]

\* addConnectionLine, lines 1107-1117: the lineInfo object ...
newLineInfo(parentId, childId, lvl, idx, run) ==
    [layer |-> Layer("line", idx + 1, run),
     parentNode |-> parentId, childNode |-> childId, level |-> lvl, idx |-> idx,
     startTime |-> Unset, endTime |-> Unset]
\* ... and the node objects once the new node (appended) is linked to it:
\* parentNode.children.push(lineInfo); childNode.parent = parentNode;
\* childNode.incomingLine = lineInfo.
addConnectionLine(objs, parentId, child, line) ==
    LET linked == [child EXCEPT !.parent = parentId, !.incomingLine = line]
        all == Append(objs, linked)
    IN  [all EXCEPT ![parentId + 1].children = Append(@, line)]

\* angleStep dividing the turn by childCount + 1.
angleStepOneMore(childCount) ==
    IF childCount > 0 THEN (FullTurn * AngleScale) \div (childCount + 1) ELSE 0

\* level-1 angle step, line 1483
angleStep(childCount) ==
    IF childCount > 0 THEN (FullTurn * AngleScale) \div childCount ELSE 0

\* childOffset without the - 0.5 that centres the fan on the parent.
childOffsetUncentred(o, cc) ==
    LET spread == o.branchSpread
        normalized == IF o.childrenPerNode > 1
                      THEN (cc * AngleScale) \div (o.childrenPerNode - 1)
                      ELSE 0
    IN  spread * normalized

\* childOffset with the - 0.5 applied to an only child too.
childOffsetOnlyChildShifted(o, cc) ==
    LET spread == o.branchSpread
        normalized == IF o.childrenPerNode > 1
                      THEN (cc * AngleScale) \div (o.childrenPerNode - 1)
                           - AngleScale \div 2
                      ELSE - AngleScale \div 2
    IN  spread * normalized

\* angular offset of child cc of a node, lines 1499-1501
childOffset(o, cc) ==
    LET spread == o.branchSpread
        normalized == IF o.childrenPerNode > 1
                      THEN (cc * AngleScale) \div (o.childrenPerNode - 1)
                           - AngleScale \div 2
                      ELSE 0
    IN  spread * normalized

\* ---------------------------------------------------------------- actions
InitRest ==
    /\ pc = "idle"
    /\ opts = NoOpts
    /\ rng = NoGenerator
    /\ nodeObjs = <<>>
    /\ lineInfos = <<>>
    /\ nodes = <<>>
    /\ levelNodes = <<>>
    /\ level = 0 /\ p = 0 /\ c = 0
    /\ nodeSerial = 0
    /\ connectionSerial = 0
    /\ schedRng = NoGenerator
    /\ queue = <<>>
    /\ current = NoNode
    /\ i = 0
    /\ maxTime = Num(0)
    /\ progress = [lines |-> <<>>, nodes |-> <<>>]
    /\ layers = <<>>
    /\ shifted = <<>>
    /\ undoLog = <<>>
    /\ alerts = <<>>
    /\ runs = <<>>

\* getTargetComp, lines 887-904: the layers of the composition the run
\* draws into, the active one or a new, empty one.  The stack in layers is
\* that of the active composition.
getTargetComp(o, stack) == IF o.useActiveComp THEN stack ELSE <<>>

\* Generate with one generator kept for the life of the dialog instead of
\* one per run.
GenerateSharedGenerator ==
    /\ pc = "idle"
    /\ clicks > 0
    /\ clicks' = clicks - 1
    /\ LET o == readOptions(fields)
       IN  /\ opts' = o
           /\ rng' = IF rng = NoGenerator THEN createRng(structureSeed(o)) ELSE rng
    /\ nodeObjs' = <<addNode(polarToCartesian(Num(0), Num(0)), Num(0), Num(0), 0, 0,
                              clickNumber)>>
    /\ layers' = addLayer(addLayer(getTargetComp(readOptions(fields), layers),
                                   Layer("null", 0, clickNumber)),
                          Layer("circle", 0, clickNumber))
    /\ nodeSerial' = 1
    /\ connectionSerial' = 0
    /\ lineInfos' = <<>>
    /\ nodes' = << <<0>> >>
    /\ levelNodes' = <<>>
    /\ level' = 1 /\ p' = 0 /\ c' = 0
    /\ pc' = "build"
    /\ fields' = fieldsAfterRead(fields)
    /\ UNCHANGED runs
    /\ UNCHANGED animVars
    /\ undoLog' = Append(undoLog, "begin")
    /\ UNCHANGED alerts

\* generateBtn.onClick up to the first level of generateStructure,
\* lines 857-865 and 1466-1476: read the dialog, seed the generator, add the
\* centre node.
Generate ==
    /\ pc = "idle"
    /\ clicks > 0
    /\ clicks' = clicks - 1
    /\ LET o == readOptions(fields)
       IN  /\ opts' = o
           /\ rng' = createRng(structureSeed(o))
    /\ nodeObjs' = <<addNode(polarToCartesian(Num(0), Num(0)), Num(0), Num(0), 0, 0,
                              clickNumber)>>
    /\ layers' = addLayer(addLayer(getTargetComp(readOptions(fields), layers),
                                   Layer("null", 0, clickNumber)),
                          Layer("circle", 0, clickNumber))
    /\ nodeSerial' = 1
    /\ connectionSerial' = 0
    /\ lineInfos' = <<>>
    /\ nodes' = << <<0>> >>
    /\ levelNodes' = <<>>
    /\ level' = 1 /\ p' = 0 /\ c' = 0
    /\ pc' = "build"
    /\ fields' = fieldsAfterRead(fields)
    /\ UNCHANGED runs
    /\ UNCHANGED animVars
    /\ undoLog' = Append(undoLog, "begin")
    /\ UNCHANGED alerts

\* AddRootChild with the loop bounded by i <= childCount.
AddRootChildInclusive ==
    /\ pc = "build"
    /\ level = 1
    /\ level <= opts.levels
    /\ c <= opts.initialLines
    /\ LET baseAngle == angleStep(opts.initialLines) * c
           jitter == angleJitterDraw(opts, rng)
           angle == NumAdd(Num(baseAngle), jitter.result)
           rad == computeRadius(level, opts, jitter.value)
           childNode == addNode(polarToCartesian(rad.radius, angle), angle,
                                rad.radius, level, nodeSerial, clickNumber)
           line == Len(lineInfos) + 1
           lineInfoRoot == newLineInfo(0, nodeSerial, level, connectionSerial, clickNumber)
       IN  /\ rng' = rad.value
           /\ nodeObjs' = addConnectionLine(nodeObjs, 0, childNode, line)
           /\ lineInfos' = Append(lineInfos, lineInfoRoot)
           /\ levelNodes' = Append(levelNodes, nodeSerial)
           /\ layers' = addLayer(addLayer(addLayer(layers, childNode.nullLayer),
                                          childNode.circleLayer),
                                 lineInfoRoot.layer)
    /\ nodeSerial' = nodeSerial + 1
    /\ connectionSerial' = connectionSerial + 1
    /\ c' = c + 1
    /\ UNCHANGED <<fields, clicks, pc, opts, nodes, level, p, runs>>
    /\ UNCHANGED animVars
    /\ UNCHANGED handlerVars

\* One pass of the level-1 loop, lines 1484-1494.
AddRootChild ==
    /\ pc = "build"
    /\ level = 1
    /\ level <= opts.levels
    /\ c < opts.initialLines
    /\ LET baseAngle == angleStep(opts.initialLines) * c
           jitter == angleJitterDraw(opts, rng)
           angle == NumAdd(Num(baseAngle), jitter.result)
           rad == computeRadius(level, opts, jitter.value)
           childNode == addNode(polarToCartesian(rad.radius, angle), angle,
                                rad.radius, level, nodeSerial, clickNumber)
           line == Len(lineInfos) + 1
           lineInfoRoot == newLineInfo(0, nodeSerial, level, connectionSerial, clickNumber)
       IN  /\ rng' = rad.value
           /\ nodeObjs' = addConnectionLine(nodeObjs, 0, childNode, line)
           /\ lineInfos' = Append(lineInfos, lineInfoRoot)
           /\ levelNodes' = Append(levelNodes, nodeSerial)
           /\ layers' = addLayer(addLayer(addLayer(layers, childNode.nullLayer),
                                          childNode.circleLayer),
                                 lineInfoRoot.layer)
    /\ nodeSerial' = nodeSerial + 1
    /\ connectionSerial' = connectionSerial + 1
    /\ c' = c + 1
    /\ UNCHANGED <<fields, clicks, pc, opts, nodes, level, p, runs>>
    /\ UNCHANGED animVars
    /\ UNCHANGED handlerVars

\* AddBranchChild with the loops the other way round: for each c, every
\* parent in turn.
AddBranchChildChildMajor ==
    /\ pc = "build"
    /\ level >= 2
    /\ level <= opts.levels
    /\ p < Len(nodes[level])
    /\ c < opts.childrenPerNode
    /\ LET parentNode == Node(nodes[level][p + 1])
           offset == childOffset(opts, c)
           jitterChild == angleJitterDraw(opts, rng)
           angleChild == NumAdd(NumAdd(parentNode.angle, Num(offset)), jitterChild.result)
           rad == computeRadius(level, opts, jitterChild.value)
           newNode == addNode(polarToCartesian(rad.radius, angleChild), angleChild,
                              rad.radius, level, nodeSerial, clickNumber)
           line == Len(lineInfos) + 1
           lineInfo == newLineInfo(parentNode.id, nodeSerial, level, connectionSerial,
                                   clickNumber)
       IN  /\ rng' = rad.value
           /\ nodeObjs' = addConnectionLine(nodeObjs, parentNode.id, newNode, line)
           /\ lineInfos' = Append(lineInfos, lineInfo)
           /\ levelNodes' = Append(levelNodes, nodeSerial)
           /\ layers' = addLayer(addLayer(addLayer(layers, newNode.nullLayer),
                                          newNode.circleLayer),
                                 lineInfo.layer)
    /\ nodeSerial' = nodeSerial + 1
    /\ connectionSerial' = connectionSerial + 1
    /\ IF p + 1 < Len(nodes[level])
       THEN p' = p + 1 /\ c' = c
       ELSE IF c + 1 < opts.childrenPerNode
            THEN p' = 0 /\ c' = c + 1
            ELSE p' = Len(nodes[level]) /\ c' = 0
    /\ UNCHANGED <<fields, clicks, pc, opts, nodes, level, runs>>
    /\ UNCHANGED animVars
    /\ UNCHANGED handlerVars

\* One pass of the inner loop of a level >= 2, lines 1498-1510.  The
\* script's nodes[level - 1] (counted from 0) is nodes[level] here.
AddBranchChild ==
    /\ pc = "build"
    /\ level >= 2
    /\ level <= opts.levels
    /\ p < Len(nodes[level])
    /\ c < opts.childrenPerNode
    /\ LET parentNode == Node(nodes[level][p + 1])
           offset == childOffset(opts, c)
           jitterChild == angleJitterDraw(opts, rng)
           angleChild == NumAdd(NumAdd(parentNode.angle, Num(offset)), jitterChild.result)
           rad == computeRadius(level, opts, jitterChild.value)
           newNode == addNode(polarToCartesian(rad.radius, angleChild), angleChild,
                              rad.radius, level, nodeSerial, clickNumber)
           line == Len(lineInfos) + 1
           lineInfo == newLineInfo(parentNode.id, nodeSerial, level, connectionSerial,
                                   clickNumber)
       IN  /\ rng' = rad.value
           /\ nodeObjs' = addConnectionLine(nodeObjs, parentNode.id, newNode, line)
           /\ lineInfos' = Append(lineInfos, lineInfo)
           /\ levelNodes' = Append(levelNodes, nodeSerial)
           /\ layers' = addLayer(addLayer(addLayer(layers, newNode.nullLayer),
                                          newNode.circleLayer),
                                 lineInfo.layer)
    /\ nodeSerial' = nodeSerial + 1
    /\ connectionSerial' = connectionSerial + 1
    /\ IF c + 1 < opts.childrenPerNode
       THEN c' = c + 1 /\ p' = p
       ELSE c' = 0 /\ p' = p + 1
    /\ UNCHANGED <<fields, clicks, pc, opts, nodes, level, runs>>
    /\ UNCHANGED animVars
    /\ UNCHANGED handlerVars

\* EndLevel with the level loop bounded by level < opts.levels.
EndLevelOneShort ==
    /\ pc = "build"
    /\ level <= opts.levels
    /\ IF level = 1 THEN c >= opts.initialLines ELSE p >= Len(nodes[level])
    /\ nodes' = Append(nodes, levelNodes)
    /\ levelNodes' = <<>>
    /\ level' = level + 1
    /\ p' = 0 /\ c' = 0
    /\ pc' = IF level + 1 < opts.levels THEN "build" ELSE "reorder"
    /\ UNCHANGED <<fields, clicks, opts, rng, nodeObjs, lineInfos, nodeSerial,
                   connectionSerial, layers, runs>>
    /\ UNCHANGED animVars
    /\ UNCHANGED handlerVars

\* The end of a pass of the level loop, lines 1478 and 1513:
\* nodes[level] = levelNodes, level++.
EndLevel ==
    /\ pc = "build"
    /\ level <= opts.levels
    /\ IF level = 1 THEN c >= opts.initialLines ELSE p >= Len(nodes[level])
    /\ nodes' = Append(nodes, levelNodes)
    /\ levelNodes' = <<>>
    /\ level' = level + 1
    /\ p' = 0 /\ c' = 0
    /\ pc' = IF level + 1 <= opts.levels THEN "build" ELSE "reorder"
    /\ UNCHANGED <<fields, clicks, opts, rng, nodeObjs, lineInfos, nodeSerial,
                   connectionSerial, layers, runs>>
    /\ UNCHANGED animVars
    /\ UNCHANGED handlerVars

\* layer.index: the place of a layer in the stack, from 1 at the top.
index(stack, layer) == CHOOSE k \in DOMAIN stack : stack[k] = layer

\* moveAfter putting the layer right above target.
moveAfterAbove(stack, layer, target) ==
    LET Others(x) == x # layer
        rest == SelectSeq(stack, Others)
        t == index(rest, target)
    IN  SubSeq(rest, 1, t - 1) \o <<layer>> \o SubSeq(rest, t, Len(rest))

\* layer.moveAfter(target): the stack with layer taken out and put back
\* right below target.
moveAfter(stack, layer, target) ==
    LET Others(x) == x # layer
        rest == SelectSeq(stack, Others)
        t == index(rest, target)
    IN  SubSeq(rest, 1, t) \o <<layer>> \o SubSeq(rest, t + 1, Len(rest))

\* placeLines with receiver and argument of moveAfter exchanged:
\* insertionLayer.moveAfter(lineLayer).
RECURSIVE placeLinesTargetMoved(_, _, _, _, _)
placeLinesTargetMoved(stack, lineLayers, from, to, bottomCircle) ==
    IF from > to THEN stack
    ELSE IF from = to
    THEN LET lineLayer == lineLayers[from]
             insertionLayer == IF from = 1 THEN bottomCircle ELSE lineLayers[from - 1]
             li == index(stack, lineLayer)
             ii == index(stack, insertionLayer)
         IN  IF li <= ii \/ li > ii + 1
             THEN moveAfter(stack, insertionLayer, lineLayer)
             ELSE stack
    ELSE LET mid == (from + to) \div 2
             firstHalf == placeLinesTargetMoved(stack, lineLayers, from, mid, bottomCircle)
         IN  IF Len(firstHalf) = Len(stack)
             THEN placeLinesTargetMoved(firstHalf, lineLayers, mid + 1, to, bottomCircle)
             ELSE firstHalf

\* The passes from..to of the loop of lines 1453-1463 over the sorted
\* lineLayers, in order: the first half of them, then the second half on
\* the stack the first half leaves.  The insertionLayer of a pass is the
\* line of the pass before it, bottomCircle for the first pass.  A move
\* keeps the length of the stack.
RECURSIVE placeLines(_, _, _, _, _)
placeLines(stack, lineLayers, from, to, bottomCircle) ==
    IF from > to THEN stack
    ELSE IF from = to
    THEN LET lineLayer == lineLayers[from]
             insertionLayer == IF from = 1 THEN bottomCircle ELSE lineLayers[from - 1]
             li == index(stack, lineLayer)
             ii == index(stack, insertionLayer)
         IN  IF li <= ii \/ li > ii + 1
             THEN moveAfter(stack, lineLayer, insertionLayer)
             ELSE stack
    ELSE LET mid == (from + to) \div 2
             firstHalf == placeLines(stack, lineLayers, from, mid, bottomCircle)
         IN  IF Len(firstHalf) = Len(stack)
             THEN placeLines(firstHalf, lineLayers, mid + 1, to, bottomCircle)
             ELSE firstHalf

\* reorderGeneratedLayers, lines 1407-1464.  Every node has a circle layer
\* and every lineInfo a layer, so circleLayers and lineLayers list them all.
\* lineLayers.sort by index, lines 1449-1451, leaves the line layers in the
\* order in which they stand in the stack.
reorderGeneratedLayers(stack, objs, infos) ==
    IF Len(infos) = 0 THEN stack
    ELSE LET circleLayers == [x \in DOMAIN objs |-> objs[x].circleLayer]
             lineSet == {infos[l].layer : l \in DOMAIN infos}
             IsLine(x) == x \in lineSet
             sorted == SelectSeq(stack, IsLine)
             bottom == CHOOSE x \in DOMAIN circleLayers :
                           \A y \in DOMAIN circleLayers :
                               index(stack, circleLayers[y]) <= index(stack, circleLayers[x])
         IN  IF Len(circleLayers) = 0 \/ Len(sorted) = 0 THEN stack
             ELSE placeLines(stack, sorted, 1, Len(sorted), circleLayers[bottom])

\* reorderGeneratedLayers(nodes, lineInfos), line 1516.
Reorder ==
    /\ pc = "reorder"
    /\ layers' = reorderGeneratedLayers(layers, nodeObjs, lineInfos)
    /\ pc' = "schedule"
    /\ UNCHANGED <<fields, clicks, opts, runs>>
    /\ UNCHANGED buildVars
    /\ UNCHANGED animVars
    /\ UNCHANGED handlerVars

\* --------------------------------------------------------------- schedule
\* startProgress and endProgress of setLineAnimationExpression and
\* setNodeAnimationExpression, lines 1230-1231 and 1266-1267.  The value
\* (t / totalDuration) * 100 is kept as the fraction [num, den] = 100 * num
\* / den; toFixed(3) is not applied.
startProgress(t, totalDuration) ==
    IF NumLess(Num(0), totalDuration)
    THEN [num |-> t, den |-> totalDuration]
    ELSE [num |-> Num(0), den |-> Num(1)]
endProgress(t, totalDuration) ==
    IF NumLess(Num(0), totalDuration)
    THEN [num |-> t, den |-> totalDuration]
    ELSE [num |-> Num(1), den |-> Num(1)]

\* applyBranchAnimation, lines 1319-1336: seed the generator, time the root,
\* start the queue.
StartAnimation ==
    /\ pc = "schedule"
    /\ schedRng' = createRng(schedulerSeed(opts))
    /\ LET animEnd == NumAdd(Num(0), Num(opts.nodeDuration))
       IN  /\ nodeObjs' = [nodeObjs EXCEPT ![1].inTime = Num(0),
                                            ![1].animStart = Num(0),
                                            ![1].animEnd = animEnd,
                                            ![1].outTime = animEnd]
           /\ maxTime' = animEnd
    /\ queue' = <<0>>
    /\ shifted' = <<>>
    /\ current' = NoNode
    /\ i' = 0
    /\ pc' = "bfs"
    /\ UNCHANGED <<fields, clicks, opts, rng, lineInfos, nodes, levelNodes, level, p, c,
                   nodeSerial, connectionSerial, progress, layers, runs>>
    /\ UNCHANGED handlerVars

\* NodeDone with the loop over current's children ended after one child.
NodeDoneAfterFirst == IF current = NoNode THEN TRUE ELSE i >= Min(1, Len(Node(current).children))

\* The for loop over current's children has ended (or no node is current).
NodeDone == IF current = NoNode THEN TRUE ELSE i >= Len(Node(current).children)

\* Dequeue taking the node added last: queue.pop().
DequeueLast ==
    /\ pc = "bfs"
    /\ NodeDone
    /\ queue # <<>>
    /\ current' = queue[Len(queue)]
    /\ queue' = SubSeq(queue, 1, Len(queue) - 1)
    /\ shifted' = Append(shifted, queue[Len(queue)])
    /\ i' = 0
    /\ UNCHANGED <<fields, clicks, pc, opts, schedRng, maxTime, progress, layers, runs>>
    /\ UNCHANGED buildVars
    /\ UNCHANGED handlerVars

\* queue.shift(), lines 1338-1340.
Dequeue ==
    /\ pc = "bfs"
    /\ NodeDone
    /\ queue # <<>>
    /\ current' = Head(queue)
    /\ queue' = Tail(queue)
    /\ shifted' = Append(shifted, Head(queue))
    /\ i' = 0
    /\ UNCHANGED <<fields, clicks, pc, opts, schedRng, maxTime, progress, layers, runs>>
    /\ UNCHANGED buildVars
    /\ UNCHANGED handlerVars

\* lineOffset with the root's lines staggered like any other's.
lineOffsetStaggeredRoot(o, isRoot, idx, value) ==
    LET staggered == Num(o.childStagger * idx)
        drawn == IF o.randomOffset > 0
                 THEN range(value, -o.randomOffset, o.randomOffset)
                 ELSE [result |-> Num(0), value |-> value]
    IN  [offset |-> NumAdd(staggered, drawn.result), value |-> drawn.value]

\* lineOffset with the stagger counted from the first child on.
lineOffsetFromOne(o, isRoot, idx, value) ==
    LET staggered == Num(o.childStagger * (idx + 1))
        drawn == IF o.randomOffset > 0
                 THEN range(value, -o.randomOffset, o.randomOffset)
                 ELSE [result |-> Num(0), value |-> value]
        offset == NumAdd(staggered, drawn.result)
    IN  [offset |-> IF isRoot /\ o.simultaneousRoot THEN Num(0) ELSE offset,
         value |-> drawn.value]

\* The offset of child line idx of the current node, lines 1346-1352, and
\* the generator state left behind.
lineOffset(o, isRoot, idx, value) ==
    LET staggered == Num(o.childStagger * idx)
        drawn == IF o.randomOffset > 0
                 THEN range(value, -o.randomOffset, o.randomOffset)
                 ELSE [result |-> Num(0), value |-> value]
        offset == NumAdd(staggered, drawn.result)
    IN  [offset |-> IF isRoot /\ o.simultaneousRoot THEN Num(0) ELSE offset,
         value |-> drawn.value]

\* childWindow without the floor of 0.0001 s under nodeDuration.
childWindowNoFloor(o, lineStart, lineEnd) ==
    LET animStart == IF o.smoothFlow THEN lineStart ELSE lineEnd
        animEnd == IF o.smoothFlow
                   THEN LET e == NumAdd(animStart, Num(o.nodeDuration))
                        IN  IF NumLess(e, lineEnd) THEN lineEnd ELSE e
                   ELSE NumAdd(animStart, Num(o.nodeDuration))
    IN  [animStart |-> animStart, animEnd |-> animEnd]

\* childWindow with the floor of 0.0001 s under nodeDuration on both
\* branches.
childWindowFloorAlways(o, lineStart, lineEnd) ==
    LET animStart == IF o.smoothFlow THEN lineStart ELSE lineEnd
        animEnd == IF o.smoothFlow
                   THEN LET e == NumAdd(animStart,
                                        Num(Max(o.nodeDuration, MinSmoothNodeDuration)))
                        IN  IF NumLess(e, lineEnd) THEN lineEnd ELSE e
                   ELSE NumAdd(animStart, Num(Max(o.nodeDuration, MinSmoothNodeDuration)))
    IN  [animStart |-> animStart, animEnd |-> animEnd]

\* childWindow with the node always starting with its line.
childWindowAlwaysSmooth(o, lineStart, lineEnd) ==
    LET animStart == lineStart
        animEnd == IF o.smoothFlow
                   THEN LET e == NumAdd(animStart,
                                        Num(Max(o.nodeDuration, MinSmoothNodeDuration)))
                        IN  IF NumLess(e, lineEnd) THEN lineEnd ELSE e
                   ELSE NumAdd(animStart, Num(o.nodeDuration))
    IN  [animStart |-> animStart, animEnd |-> animEnd]

\* The activation window of a child whose line is drawn from lineStart to
\* lineEnd, lines 1361-1375.
childWindow(o, lineStart, lineEnd) ==
    LET animStart == IF o.smoothFlow THEN lineStart ELSE lineEnd
        animEnd == IF o.smoothFlow
                   THEN LET e == NumAdd(animStart,
                                        Num(Max(o.nodeDuration, MinSmoothNodeDuration)))
                        IN  IF NumLess(e, lineEnd) THEN lineEnd ELSE e
                   ELSE NumAdd(animStart, Num(o.nodeDuration))
    IN  [animStart |-> animStart, animEnd |-> animEnd]

\* maxTime left where it is, whatever the child's outTime.
trackMaxTimeRootOnly(m, outTime) == m

\* maxTime after a child with this outTime, lines 1376-1378.
trackMaxTime(m, outTime) == IF NumLess(m, outTime) THEN outTime ELSE m

\* One pass of the for loop over current's children, lines 1341-1380.
ScheduleLine ==
    /\ pc = "bfs"
    /\ current # NoNode
    /\ i < Len(Node(current).children)
    /\ LET line == Node(current).children[i + 1]
           off == lineOffset(opts, current = 0, i, schedRng)
           lineStart == NumAdd(Node(current).outTime, off.offset)
           lineEnd == NumAdd(lineStart, Num(opts.lineDuration))
           childNode == lineInfos[line].childNode
           win == childWindow(opts, lineStart, lineEnd)
       IN  /\ schedRng' = off.value
           /\ lineInfos' = [lineInfos EXCEPT ![line].startTime = lineStart,
                                              ![line].endTime = lineEnd]
           /\ nodeObjs' = [nodeObjs EXCEPT ![childNode + 1].animStart = win.animStart,
                                            ![childNode + 1].inTime = win.animStart,
                                            ![childNode + 1].animEnd = win.animEnd,
                                            ![childNode + 1].outTime = win.animEnd]
           /\ maxTime' = trackMaxTime(maxTime, win.animEnd)
           /\ queue' = Append(queue, childNode)
    /\ i' = i + 1
    /\ UNCHANGED <<fields, clicks, pc, opts, rng, nodes, levelNodes, level, p, c,
                   nodeSerial, connectionSerial, current, progress, layers, shifted,
                   runs>>
    /\ UNCHANGED handlerVars

\* ensureAnimationController, lines 1177-1195: the stack with the
\* controller layer, found by its name or added and moved to the top.
ensureAnimationController(stack) ==
    IF \E k \in DOMAIN stack : stack[k].kind = "control" THEN stack
    ELSE addLayer(stack, Layer("control", 0, 0))

\* totalDuration with the fallback taken only below 0: maxTime < 0.
totalDurationStrict(o, m) ==
    IF NumLess(m, Num(0))
    THEN IF o.nodeDuration > 0 THEN Num(o.nodeDuration) ELSE Num(TimeScale)
    ELSE m

\* maxTime after the fallback of lines 1383-1385.
totalDuration(o, m) ==
    IF NumLeq(m, Num(0))
    THEN IF o.nodeDuration > 0 THEN Num(o.nodeDuration) ELSE Num(TimeScale)
    ELSE m

\* The rest of applyBranchAnimation, lines 1383-1404, and the return to the
\* dialog: the fallback of maxTime, the controller layer, the progress
\* bounds of every line and node.
FinishAnimation ==
    /\ pc = "bfs"
    /\ NodeDone
    /\ queue = <<>>
    /\ LET total == totalDuration(opts, maxTime)
           pr == [lines |-> [l \in 1..Len(lineInfos) |->
                               [startProgress |-> startProgress(lineInfos[l].startTime, total),
                                endProgress |-> endProgress(lineInfos[l].endTime, total)]],
                  nodes |-> [n \in 1..Len(nodeObjs) |->
                               [startProgress |-> startProgress(nodeObjs[n].animStart, total),
                                endProgress |-> endProgress(nodeObjs[n].animEnd, total)]]]
       IN  /\ maxTime' = total
           /\ progress' = pr
           /\ layers' = ensureAnimationController(layers)
           /\ runs' = Append(runs, [opts |-> opts, nodeObjs |-> nodeObjs,
                                    lineInfos |-> lineInfos, maxTime |-> total,
                                    progress |-> pr])
    /\ current' = NoNode
    /\ i' = 0
    /\ pc' = "idle"
    /\ UNCHANGED <<fields, clicks, opts, schedRng, queue>>
    /\ UNCHANGED buildVars
    /\ undoLog' = Append(undoLog, "end")
    /\ UNCHANGED <<alerts, shifted>>

Next ==
    \/ Generate
    \/ AddRootChild
    \/ AddBranchChild
    \/ EndLevel
    \/ Reorder
    \/ StartAnimation
    \/ Dequeue
    \/ ScheduleLine
    \/ FinishAnimation

\* Options for a direct call of generateStructure: those readOptions gives
\* for the dialog at DEFAULTS with 2 lines, 2 levels and 2 children, the
\* timing swept down to 0 (1 is 0.0001 s).
DirectDurations == {0, 1}
DirectOffsets == {0, 600, 10000}
DirectOpts ==
    { [initialLines     |-> 2,
       levels           |-> 2,
       childrenPerNode  |-> 2,
       baseRadius       |-> DefaultBaseRadius,
       radiusStep       |-> DefaultRadiusStep,
       radiusJitter     |-> DefaultRadiusJitter,
       angleJitter      |-> DefaultAngleJitter,
       branchSpread     |-> DefaultBranchSpread,
       lineDuration     |-> ld,
       nodeDuration     |-> nd,
       childStagger     |-> cs,
       randomOffset     |-> ro,
       seed             |-> 1,
       useActiveComp    |-> TRUE,
       simultaneousRoot |-> sr,
       smoothFlow       |-> sf] :
      ld \in DirectDurations \cup {DefaultLineDuration},
      nd \in DirectDurations \cup {DefaultNodeDuration},
      cs \in {0, DefaultChildStagger}, ro \in DirectOffsets,
      sr \in BOOLEAN, sf \in BOOLEAN }

\* generateStructure entered with options that did not come through the
\* dialog, lines 1466-1476: what Generate does from the call of
\* generateStructure on, for any o of the given set.
GenerateDirect ==
    /\ pc = "idle"
    /\ clicks > 0
    /\ clicks' = clicks - 1
    /\ \E o \in DirectOpts :
           /\ opts' = o
           /\ rng' = createRng(structureSeed(o))
           /\ layers' = addLayer(addLayer(getTargetComp(o, layers),
                                          Layer("null", 0, clickNumber)),
                                 Layer("circle", 0, clickNumber))
    /\ nodeObjs' = <<addNode(polarToCartesian(Num(0), Num(0)), Num(0), Num(0), 0, 0,
                              clickNumber)>>
    /\ nodeSerial' = 1
    /\ connectionSerial' = 0
    /\ lineInfos' = <<>>
    /\ nodes' = << <<0>> >>
    /\ levelNodes' = <<>>
    /\ level' = 1 /\ p' = 0 /\ c' = 0
    /\ pc' = "build"
    /\ undoLog' = Append(undoLog, "begin")
    /\ UNCHANGED <<fields, runs, alerts>>
    /\ UNCHANGED animVars

\* The steps of generateStructure and applyBranchAnimation after the entry.
HandlerStep ==
    \/ AddRootChild
    \/ AddBranchChild
    \/ EndLevel
    \/ Reorder
    \/ StartAnimation
    \/ Dequeue
    \/ ScheduleLine
    \/ FinishAnimation

NextDirect == GenerateDirect \/ HandlerStep

\* Options for a direct call of generateStructure on the edges of the
\* structure options: no spoke at all, one level, nothing random.
EdgeLines == {0, 1, 2}
EdgeLevels == {1, 2}
EdgeOpts ==
    { [initialLines     |-> n,
       levels           |-> l,
       childrenPerNode  |-> 2,
       baseRadius       |-> DefaultBaseRadius,
       radiusStep       |-> DefaultRadiusStep,
       radiusJitter     |-> 0,
       angleJitter      |-> 0,
       branchSpread     |-> DefaultBranchSpread,
       lineDuration     |-> DefaultLineDuration,
       nodeDuration     |-> DefaultNodeDuration,
       childStagger     |-> DefaultChildStagger,
       randomOffset     |-> 0,
       seed             |-> 1,
       useActiveComp    |-> TRUE,
       simultaneousRoot |-> FALSE,
       smoothFlow       |-> TRUE] :
      n \in EdgeLines, l \in EdgeLevels }

\* generateStructure entered with one of EdgeOpts, lines 1466-1476, on the
\* active composition with whatever layers it holds.
GenerateEdge ==
    /\ pc = "idle"
    /\ clicks > 0
    /\ clicks' = clicks - 1
    /\ \E o \in EdgeOpts :
           /\ opts' = o
           /\ rng' = createRng(structureSeed(o))
           /\ layers' = addLayer(addLayer(getTargetComp(o, layers),
                                          Layer("null", 0, clickNumber)),
                                 Layer("circle", 0, clickNumber))
    /\ nodeObjs' = <<addNode(polarToCartesian(Num(0), Num(0)), Num(0), Num(0), 0, 0,
                              clickNumber)>>
    /\ nodeSerial' = 1
    /\ connectionSerial' = 0
    /\ lineInfos' = <<>>
    /\ nodes' = << <<0>> >>
    /\ levelNodes' = <<>>
    /\ level' = 1 /\ p' = 0 /\ c' = 0
    /\ pc' = "build"
    /\ undoLog' = Append(undoLog, "begin")
    /\ UNCHANGED <<fields, runs, alerts>>
    /\ UNCHANGED animVars

NextEdge == GenerateEdge \/ HandlerStep

\* What the user may type into the dialog between two clicks: one small
\* structure with both jitters, the seeds 0 and 1, and timing options that
\* differ from DEFAULTS in one option or in all of them.  Each entry of
\* EditTimings is lineDuration, nodeDuration, childStagger, randomOffset,
\* simultaneousRoot, smoothFlow.
EditSeeds == {0, 1}
EditTimings ==
    { <<DefaultLineDuration, DefaultNodeDuration, DefaultChildStagger,
        DefaultRandomOffset, FALSE, TRUE>>,
      <<2 * DefaultLineDuration, DefaultNodeDuration, DefaultChildStagger,
        DefaultRandomOffset, FALSE, TRUE>>,
      <<DefaultLineDuration, MinNodeDuration, DefaultChildStagger,
        DefaultRandomOffset, FALSE, TRUE>>,
      <<DefaultLineDuration, DefaultNodeDuration, 0,
        DefaultRandomOffset, FALSE, TRUE>>,
      <<DefaultLineDuration, DefaultNodeDuration, DefaultChildStagger,
        0, FALSE, TRUE>>,
      <<DefaultLineDuration, DefaultNodeDuration, DefaultChildStagger,
        DefaultRandomOffset, TRUE, TRUE>>,
      <<DefaultLineDuration, DefaultNodeDuration, DefaultChildStagger,
        DefaultRandomOffset, FALSE, FALSE>>,
      <<2 * DefaultLineDuration, MinNodeDuration, 0, 0, TRUE, FALSE>> }
EditChoices ==
    { [initialLines     |-> Text(2),
       levels           |-> Text(2),
       childrenPerNode  |-> Text(2),
       baseRadius       |-> Text(DefaultBaseRadius),
       radiusStep       |-> Text(DefaultRadiusStep),
       radiusJitter     |-> Text(DefaultRadiusJitter),
       angleJitter      |-> Text(DefaultAngleJitter),
       branchSpread     |-> Text(DefaultBranchSpread),
       lineDuration     |-> Text(t[1]),
       nodeDuration     |-> Text(t[2]),
       childStagger     |-> Text(t[3]),
       randomOffset     |-> Text(t[4]),
       seed             |-> Text(s),
       simultaneousRoot |-> t[5],
       smoothFlow       |-> t[6],
       useActiveComp    |-> TRUE] :
      t \in EditTimings, s \in EditSeeds }

\* The user edits the dialog (the edittext and checkbox controls of
\* addEditRow and addCheckbox, lines 614-631) while no click is running.
EditFields ==
    /\ pc = "idle"
    /\ clicks > 0
    /\ \E f \in EditChoices : f # fields /\ fields' = f
    /\ UNCHANGED <<clicks, pc, opts, layers, runs>>
    /\ UNCHANGED buildVars
    /\ UNCHANGED animVars
    /\ UNCHANGED handlerVars

NextEdit == Next \/ EditFields

\* generateBtn.onClick when getTargetComp returns no composition, lines
\* 858-863 and 869-871: the alert, then the finally clause.
GenerateNoComp ==
    /\ pc = "idle"
    /\ clicks > 0
    /\ clicks' = clicks - 1
    /\ opts' = readOptions(fields)
    /\ undoLog' = undoLog \o <<"begin", "end">>
    /\ alerts' = Append(alerts, "Unable to access or create a composition.")
    /\ fields' = fieldsAfterRead(fields)
    /\ UNCHANGED <<pc, layers, runs>>
    /\ UNCHANGED buildVars
    /\ UNCHANGED animVars

\* generateBtn.onClick when getTargetComp throws, lines 858-861 and 867-871:
\* the catch clause, then the finally clause.
GenerateThrows ==
    /\ pc = "idle"
    /\ clicks > 0
    /\ clicks' = clicks - 1
    /\ opts' = readOptions(fields)
    /\ undoLog' = undoLog \o <<"begin", "end">>
    /\ alerts' = Append(alerts, "Error")
    /\ fields' = fieldsAfterRead(fields)
    /\ UNCHANGED <<pc, layers, runs>>
    /\ UNCHANGED buildVars
    /\ UNCHANGED animVars

\* HostError with the undo group left open.
HostErrorNoFinally ==
    /\ pc \in {"build", "reorder", "schedule", "bfs"}
    /\ pc' = "idle"
    /\ alerts' = Append(alerts, "Error")
    /\ UNCHANGED <<fields, clicks, opts, layers, undoLog, runs>>
    /\ UNCHANGED buildVars
    /\ UNCHANGED animVars

\* A call of the host throws inside generateStructure, between two steps of
\* it, lines 867-871: the catch clause, then the finally clause; what was
\* built stays as it is.
HostError ==
    /\ pc \in {"build", "reorder", "schedule", "bfs"}
    /\ pc' = "idle"
    /\ alerts' = Append(alerts, "Error")
    /\ undoLog' = Append(undoLog, "end")
    /\ UNCHANGED <<fields, clicks, opts, layers, runs>>
    /\ UNCHANGED buildVars
    /\ UNCHANGED animVars

NextFault == Next \/ GenerateNoComp \/ GenerateThrows \/ HostError

\* ---------------------------------------------------------- specifications
\* Dialogs that sweep the structure options, the timing left at DEFAULTS.
StructureSeeds == {Text(0), NotANumber}
LineChoices == {0, 1, 3, MaxLines}
RadiusChoices == {<<1, 3>>, <<250, 180>>}
JitterChoices == {<<0, 0>>, <<40, 0>>, <<0, 8>>, <<40, 8>>}
StructureFields ==
    { [initialLines     |-> Text(n),
       levels           |-> Text(l),
       childrenPerNode  |-> Text(k),
       baseRadius       |-> Text(rad[1]),
       radiusStep       |-> Text(rad[2]),
       radiusJitter     |-> Text(jit[1]),
       angleJitter      |-> Text(jit[2]),
       branchSpread     |-> Text(DefaultBranchSpread),
       lineDuration     |-> Text(DefaultLineDuration),
       nodeDuration     |-> Text(DefaultNodeDuration),
       childStagger     |-> Text(DefaultChildStagger),
       randomOffset     |-> Text(DefaultRandomOffset),
       seed             |-> s,
       simultaneousRoot |-> FALSE,
       smoothFlow       |-> TRUE,
       useActiveComp    |-> TRUE] :
      n \in LineChoices, l \in 1..MaxLevels, k \in 1..MaxChildren,
      rad \in RadiusChoices, jit \in JitterChoices, s \in StructureSeeds }

\* Dialogs that sweep the seed over one small structure: the ends of the
\* range readOptions accepts and the seeds next to them.
SweptSeeds ==
    {Text(MinSeed), Text(MinSeed + 1), Text(-1), Text(1), Text(MaxSeed - 1), Text(MaxSeed)}
SeedFields ==
    { [initialLines     |-> Text(2),
       levels           |-> Text(2),
       childrenPerNode  |-> Text(2),
       baseRadius       |-> Text(DefaultBaseRadius),
       radiusStep       |-> Text(DefaultRadiusStep),
       radiusJitter     |-> Text(DefaultRadiusJitter),
       angleJitter      |-> Text(DefaultAngleJitter),
       branchSpread     |-> Text(DefaultBranchSpread),
       lineDuration     |-> Text(DefaultLineDuration),
       nodeDuration     |-> Text(DefaultNodeDuration),
       childStagger     |-> Text(DefaultChildStagger),
       randomOffset     |-> Text(DefaultRandomOffset),
       seed             |-> s,
       simultaneousRoot |-> FALSE,
       smoothFlow       |-> TRUE,
       useActiveComp    |-> TRUE] : s \in SweptSeeds }

\* Dialogs that sweep the timing options over one small structure.
TimingSeeds == {Text(0), Text(1), NotANumber}
TimingFields ==
    { [initialLines     |-> Text(3),
       levels           |-> Text(2),
       childrenPerNode  |-> Text(2),
       baseRadius       |-> Text(DefaultBaseRadius),
       radiusStep       |-> Text(DefaultRadiusStep),
       radiusJitter     |-> Text(DefaultRadiusJitter),
       angleJitter      |-> Text(DefaultAngleJitter),
       branchSpread     |-> Text(DefaultBranchSpread),
       lineDuration     |-> Text(ld),
       nodeDuration     |-> Text(nd),
       childStagger     |-> Text(cs),
       randomOffset     |-> Text(ro),
       seed             |-> s,
       simultaneousRoot |-> sr,
       smoothFlow       |-> sf,
       useActiveComp    |-> TRUE] :
      ld \in {0, 3500}, nd \in {0, 2200}, cs \in {0, 500}, ro \in {0, 600, 10000},
      s \in TimingSeeds, sr \in BOOLEAN, sf \in BOOLEAN }

\* Dialogs for two clicks in a row.
TwiceFields ==
    { [f EXCEPT !.useActiveComp = u] :
          f \in { g \in TimingFields : /\ g.lineDuration = Text(3500)
                                        /\ g.nodeDuration = Text(2200)
                                        /\ g.childStagger = Text(500) },
          u \in BOOLEAN }

\* Dialogs for clicks during which the host may fail.
FaultClicks == 2
FaultFields ==
    { [f EXCEPT !.useActiveComp = u] :
          f \in { g \in SeedFields : g.seed = Text(1) }, u \in BOOLEAN }

\* Dialogs that sweep the shape of the tree, nothing random.
ShapeFields ==
    { f \in StructureFields : /\ f.seed = Text(0)
                              /\ f.baseRadius = Text(DefaultBaseRadius)
                              /\ f.radiusJitter = Text(0)
                              /\ f.angleJitter = Text(0) }

Init ==
    /\ fields \in StructureFields \cup SeedFields
    /\ clicks = 1
    /\ InitRest

InitTiming ==
    /\ fields \in TimingFields
    /\ clicks = 1
    /\ InitRest

InitTwice ==
    /\ fields \in TwiceFields
    /\ clicks = 2
    /\ InitRest

InitDirect ==
    /\ fields \in { g \in SeedFields : g.seed = Text(1) }
    /\ clicks = 1
    /\ InitRest

InitFault ==
    /\ fields \in FaultFields
    /\ clicks = FaultClicks
    /\ InitRest

InitShape ==
    /\ fields \in ShapeFields
    /\ clicks = 1
    /\ InitRest

\* Calls of generateStructure in a row on one composition.
EdgeClicks == 2
InitEdge ==
    /\ fields \in { g \in SeedFields : g.seed = Text(1) }
    /\ clicks = EdgeClicks
    /\ InitRest

\* Two calls of generateStructure on the edges of the structure options.
SpecEdge == InitEdge /\ [][NextEdge]_vars
InitEdit ==
    /\ fields \in EditChoices
    /\ clicks = 2
    /\ InitRest

\* Two clicks, the dialog edited before and between them.
SpecEdit == InitEdit /\ [][NextEdit]_vars
\* One call of generateStructure with timing options down to 0.
SpecDirect == InitDirect /\ [][NextDirect]_vars
\* Two clicks during which the host may fail.
SpecFault == InitFault /\ [][NextFault]_vars
\* The steps Reorder and ScheduleLine, told by their guards and by the
\* position they move: whether one can be taken does not depend on the
\* stack or the times it computes.
ReorderTaken == pc = "reorder" /\ pc' = "schedule"
ScheduleLineTaken ==
    /\ pc = "bfs"
    /\ current # NoNode
    /\ i < Len(Node(current).children)
    /\ i' = i + 1

\* The script is single-threaded and runs to its end without waiting: a
\* step of the handler that can be taken is taken.
HandlerRuns ==
    /\ WF_vars(AddRootChild)
    /\ WF_vars(AddBranchChild)
    /\ WF_vars(EndLevel)
    /\ WF_pc(ReorderTaken)
    /\ WF_vars(StartAnimation)
    /\ WF_vars(Dequeue)
    /\ WF_i(ScheduleLineTaken)
    /\ WF_vars(FinishAnimation)

\* One click on each shape of tree.
SpecShape == InitShape /\ [][Next]_vars
\* One click on each shape of tree, the handler running to its end.
SpecShapeFair == InitShape /\ [][Next]_vars /\ HandlerRuns

\* One click on a dialog that sweeps the structure options or the seed.
Spec == Init /\ [][Next]_vars
\* One click on a dialog that sweeps the timing options.
SpecTiming == InitTiming /\ [][Next]_vars
\* Two clicks on the same dialog.
SpecTwice == InitTwice /\ [][Next]_vars

\* ------------------------------------------------------------ properties
\* A click has run to its end.
RunFinished == pc = "idle" /\ runs # <<>>
\* generateStructure's level loop has ended.
BuildFinished == pc \in {"reorder", "schedule", "bfs"} \/ RunFinished

\* The objects of a run without the layers that carry them: the layers of
\* two runs are different layers of the host.
Layout(objs) ==
    [x \in DOMAIN objs |->
        [f \in DOMAIN objs[x] \ {"nullLayer", "circleLayer", "layer"} |-> objs[x][f]]]

\* C1.  Determinism: two runs with the same options, each seeding its own
\* generators, produce the same nodes (id, level, angle, radius, position,
\* activation window), the same lines (ends and draw window) and the same
\* maxTime.
Determinism ==
    \A a \in DOMAIN runs : \A b \in DOMAIN runs :
        runs[a].opts = runs[b].opts =>
            /\ Layout(runs[a].nodeObjs) = Layout(runs[b].nodeObjs)
            /\ Layout(runs[a].lineInfos) = Layout(runs[b].lineInfos)
            /\ runs[a].maxTime = runs[b].maxTime
DeterminismWitness ==
    /\ Len(runs) = 2
    /\ runs[1].opts = runs[2].opts
    /\ opts.radiusJitter > 0 /\ opts.angleJitter > 0 /\ opts.randomOffset > 0
    /\ Len(runs[2].nodeObjs) > 1

\* sum of k^j for j = 0..n (0 when n < 0)
RECURSIVE PowerSum(_, _)
PowerSum(k, n) == IF n < 0 THEN 0 ELSE 1 + k * PowerSum(k, n - 1)

\* C2, as amended.  The number of nodes generateStructure creates is
\* 1 + initialLines * sum_{k=0}^{levels-1} childrenPerNode^k.
NodeCountClosedForm ==
    BuildFinished =>
        Len(nodeObjs) = 1 + opts.initialLines * PowerSum(opts.childrenPerNode, opts.levels - 1)
NodeCountWitness ==
    /\ BuildFinished
    /\ opts.levels >= 3 /\ opts.childrenPerNode >= 2 /\ opts.initialLines >= 2
\* C2, as claimed: the sum ends at levels-2.
NodeCountAsClaimed ==
    BuildFinished =>
        Len(nodeObjs) = 1 + opts.initialLines * PowerSum(opts.childrenPerNode, opts.levels - 2)

\* The parent links from node n reach the root in at most fuel steps.
RECURSIVE ReachesRoot(_, _)
ReachesRoot(n, fuel) ==
    IF n = 0 THEN TRUE
    ELSE IF n = NoNode \/ fuel = 0 THEN FALSE
    ELSE ReachesRoot(Node(n).parent, fuel - 1)

InPercentRange(f) == NumLeq(Num(0), f.num) /\ NumLeq(f.num, f.den)
\* startProgress <= endProgress for one line or node (equal denominators)
Ordered(e) ==
    IF e.startProgress.den = e.endProgress.den
    THEN NumLeq(e.startProgress.num, e.endProgress.num)
    ELSE FALSE

\* C5.  Normalization bounds: the startProgress and endProgress of every
\* line and node lie in [0, 100], and endProgress >= startProgress.
NormalizationBounds ==
    RunFinished =>
        /\ \A l \in DOMAIN progress.lines :
               /\ InPercentRange(progress.lines[l].startProgress)
               /\ InPercentRange(progress.lines[l].endProgress)
               /\ Ordered(progress.lines[l])
        /\ \A n \in DOMAIN progress.nodes :
               /\ InPercentRange(progress.nodes[n].startProgress)
               /\ InPercentRange(progress.nodes[n].endProgress)
               /\ Ordered(progress.nodes[n])

\* Arguments tried for range(lo, hi), lo < hi.
RangeArguments == {<<-40, 40>>, <<0, 1>>, <<-3, 7>>}

\* C6.  In every state a generator of the run can be in, the next call of
\* next() returns a value in [0, 1) and the next call of range(lo, hi)
\* returns a value in [lo, hi).
GeneratorInRange ==
    \A g \in {rng, schedRng} \ {NoGenerator} :
        /\ LET v == nextValue(nextState(g))
           IN  NumLeq(Num(0), v) /\ NumLess(v, Num(1))
        /\ \A a \in RangeArguments :
               LET x == range(g, a[1], a[2]).result
               IN  NumLeq(Num(a[1]), x) /\ NumLess(x, Num(a[2]))

\* C7.  Seed 0 never becomes generator state 0: createRng(0) and, in a run
\* with opts.seed = 0, the initial state of the structure generator and of
\* the scheduler's generator lie in 1..2147483646.
SeedZeroNotForwarded ==
    /\ createRng(Wide(0)) \in 1..Den
    /\ (pc = "build" /\ nodeSerial = 1 /\ opts.seed = 0) =>
           /\ rng = createRng(structureSeed(opts))
           /\ rng \in 1..Den
    /\ (pc = "bfs" /\ current = NoNode /\ opts.seed = 0) =>
           /\ schedRng = createRng(schedulerSeed(opts))
           /\ schedRng \in 1..Den
SeedZeroWitness ==
    /\ fields.seed = Text(0)
    /\ opts.seed = 0
    /\ pc = "bfs"
    /\ current = NoNode
    /\ rng # NoGenerator
    /\ schedRng = FallbackSchedulerSeed

\* C8.  With angleJitter = 0 the level-1 node created i-th (i = 0..n-1) has
\* angle exactly i * 360 / n, whatever the seed and the radius jitter.
LevelOneAngles ==
    (pc # "idle" /\ opts.angleJitter = 0) =>
        \A x \in DOMAIN nodeObjs :
            nodeObjs[x].level = 1 =>
                /\ nodeObjs[x].angle.r = 0
                /\ nodeObjs[x].angle.w * opts.initialLines
                     = (nodeObjs[x].id - 1) * FullTurn * AngleScale
LevelOneAnglesWitness ==
    /\ pc = "reorder"
    /\ opts.angleJitter = 0
    /\ opts.radiusJitter > 0
    /\ opts.initialLines = 3
    /\ opts.seed # 0
    /\ Len(nodes[2]) = 3

\* C9, as amended.  With radiusJitter = 0 and radiusStep > 0 a node at
\* level L+1 is never nearer the centre than a node at level L, and is
\* strictly farther when L = 0 or baseRadius + L * radiusStep > 5; below
\* that both levels sit at the floor radius 5.
RadiusMonotoneAboveFloor ==
    (pc = "reorder" /\ opts.radiusJitter = 0 /\ opts.radiusStep > 0) =>
        \A x \in DOMAIN nodeObjs : \A y \in DOMAIN nodeObjs :
            LET a == nodeObjs[x]
                b == nodeObjs[y]
            IN  b.level = a.level + 1 =>
                    /\ NumLeq(a.radius, b.radius)
                    /\ (a.level = 0 \/ opts.baseRadius + a.level * opts.radiusStep > MinRadius)
                           => NumLess(a.radius, b.radius)
                    /\ (a.level >= 1 /\ opts.baseRadius + a.level * opts.radiusStep <= MinRadius)
                           => (a.radius = Num(MinRadius) /\ b.radius = Num(MinRadius))
RadiusMonotoneWitness ==
    /\ pc = "reorder"
    /\ opts.radiusJitter = 0 /\ opts.radiusStep > 0
    /\ opts.levels >= 3
    /\ opts.baseRadius + opts.radiusStep <= MinRadius
    /\ opts.baseRadius + 2 * opts.radiusStep > MinRadius
\* C9, as claimed: strictly farther at every level.
RadiusStrictlyIncreasing ==
    (pc = "reorder" /\ opts.radiusJitter = 0 /\ opts.radiusStep > 0) =>
        \A x \in DOMAIN nodeObjs : \A y \in DOMAIN nodeObjs :
            nodeObjs[y].level = nodeObjs[x].level + 1 =>
                NumLess(nodeObjs[x].radius, nodeObjs[y].radius)

\* The options of the scenario of C10.
ScenarioThirteen ==
    /\ pc = "reorder"
    /\ opts.seed = 12345 /\ opts.initialLines = 4 /\ opts.levels = 2
    /\ opts.childrenPerNode = 2 /\ opts.angleJitter = 0 /\ opts.branchSpread = 60
\* The angles of the nodes at the far ends of node n's child lines, in order.
ChildAngles(n) ==
    [k \in DOMAIN Node(n).children |-> Node(lineInfos[Node(n).children[k]].childNode).angle]
\* The number of nodes at a level.
CountAtLevel(lvl) == Cardinality({x \in DOMAIN nodeObjs : nodeObjs[x].level = lvl})

\* C10.  seed 12345, 4 lines, 2 levels, 2 children per node, no angle
\* jitter, spread 60: 13 nodes (1 + 4 + 8); level-1 angles 0, 90, 180, 270;
\* the children of the level-1 node at angle 0 at -30 and 30.
ScenarioThirteenNodes ==
    ScenarioThirteen =>
        /\ Len(nodeObjs) = 13
        /\ CountAtLevel(0) = 1 /\ CountAtLevel(1) = 4 /\ CountAtLevel(2) = 8
        /\ [k \in 1..4 |-> Node(nodes[2][k]).angle]
             = <<Num(0), Num(90 * AngleScale), Num(180 * AngleScale), Num(270 * AngleScale)>>
        /\ Node(1).angle = Num(0)
        /\ ChildAngles(1) = <<Num(-30 * AngleScale), Num(30 * AngleScale)>>
ScenarioThirteenWitness ==
    /\ ScenarioThirteen
    /\ opts.radiusJitter > 0
    /\ Len(Node(1).children) = 2

\* The loop over the root's children has run to its end.
RootLinesTimed ==
    \/ RunFinished
    \/ /\ pc = "bfs"
       /\ shifted # <<>>
       /\ (current # 0 \/ i >= Len(Node(0).children))

\* nodeDuration 0.22, lineDuration 0.35, childStagger 0.05, randomOffset 0,
\* smoothFlow set, simultaneousRoot not set, a root with 2 children
ScenarioEleven ==
    /\ opts.nodeDuration = 2200
    /\ opts.lineDuration = 3500
    /\ opts.childStagger = 500
    /\ opts.randomOffset = 0
    /\ opts.smoothFlow
    /\ ~opts.simultaneousRoot
    /\ Len(Node(0).children) = 2

\* C11.  In the scenario with nodeDuration 0.22, lineDuration 0.35,
\* childStagger 0.05, randomOffset 0, smoothFlow and a root with 2 children,
\* applyBranchAnimation gives the root's first line startTime 0.22, its
\* second line startTime 0.27 and the first child animStart 0.22.
ScenarioElevenTimes ==
    (RootLinesTimed /\ ScenarioEleven) =>
        /\ lineInfos[Node(0).children[1]].startTime = Num(2200)
        /\ lineInfos[Node(0).children[2]].startTime = Num(2700)
        /\ Node(lineInfos[Node(0).children[1]].childNode).animStart = Num(2200)
ScenarioElevenWitness ==
    /\ RootLinesTimed
    /\ ScenarioEleven
    /\ lineInfos[Node(0).children[2]].startTime = Num(2700)

\* The while loop of applyBranchAnimation has ended, line 1381; the fallback
\* of maxTime is still to come.
BfsEnded == pc = "bfs" /\ NodeDone /\ queue = <<>>

\* C12.  When the traversal of applyBranchAnimation ends, before the
\* fallback, maxTime is the maximum over every node's animEnd and every
\* line's endTime, and is at least the root's animEnd.
MaxTimeIsMaximum ==
    BfsEnded =>
        /\ \A n \in DOMAIN nodeObjs : NumLeq(nodeObjs[n].animEnd, maxTime)
        /\ \A l \in DOMAIN lineInfos : NumLeq(lineInfos[l].endTime, maxTime)
        /\ \/ \E n \in DOMAIN nodeObjs : nodeObjs[n].animEnd = maxTime
           \/ \E l \in DOMAIN lineInfos : lineInfos[l].endTime = maxTime
        /\ NumLeq(Node(0).animEnd, maxTime)
MaxTimeWitness ==
    /\ BfsEnded
    /\ NumLess(Node(0).animEnd, maxTime)
    /\ \E n \in DOMAIN nodeObjs : /\ nodeObjs[n].level = 2
                                  /\ nodeObjs[n].animEnd = maxTime
    /\ \E n \in DOMAIN nodeObjs : NumLess(nodeObjs[n].animEnd, Node(0).animEnd)

\* C13.  Creation order is breadth-first by level and parent-major within
\* a level: the node created n-th has id n - 1 and the line created l-th
\* has idx l - 1 and ends in the node created with it; a child has a larger
\* id than its parent; and along the ids neither the level nor the parent's
\* id ever decreases, so that a node of a lower level has the smaller id and
\* the children of a parent created first all come before the children of
\* a parent created later.
CreationOrder ==
    /\ \A n \in DOMAIN nodeObjs : nodeObjs[n].id = n - 1
    /\ \A l \in DOMAIN lineInfos : /\ lineInfos[l].idx = l - 1
                                   /\ lineInfos[l].childNode = l
    /\ \A n \in DOMAIN nodeObjs :
           nodeObjs[n].parent # NoNode => nodeObjs[n].parent < nodeObjs[n].id
    /\ \A n \in DOMAIN nodeObjs :
           n > 1 => /\ nodeObjs[n - 1].level <= nodeObjs[n].level
                    /\ nodeObjs[n - 1].parent <= nodeObjs[n].parent
CreationOrderWitness ==
    /\ BuildFinished
    /\ opts.levels = 3
    /\ opts.childrenPerNode = 2
    /\ opts.initialLines = 3
    /\ Len(nodeObjs) = 22

\* The clicks made so far, of those of SpecFault.
ClicksMade == FaultClicks - clicks

\* C14.  Every Generate click is wrapped in exactly one undo group: the
\* calls of the host alternate begin, end; while the handler runs one group
\* is open; when it has returned (generation done, no composition, or an
\* error thrown) every click made has its begin and its end, and every click
\* either completed or showed an alert and returned to the dialog.
UndoGroupPerClick ==
    /\ \A k \in DOMAIN undoLog : undoLog[k] = IF k % 2 = 1 THEN "begin" ELSE "end"
    /\ pc # "idle" => Len(undoLog) = 2 * ClicksMade - 1
    /\ pc = "idle" => /\ Len(undoLog) = 2 * ClicksMade
                      /\ Len(runs) + Len(alerts) = ClicksMade
UndoGroupWitness ==
    /\ pc = "idle"
    /\ clicks = 0
    /\ Len(runs) = 1
    /\ alerts = <<"Error">>
    /\ Len(nodeObjs) = 3
    /\ undoLog = <<"begin", "end", "begin", "end">>

\* C15.  When every click so far has failed, a layer of the last click
\* exists only if generateStructure had built every level of that click's
\* tree: no layer of a partly built tree is in the composition.
PartialTreeNotProjected ==
    (pc = "idle" /\ alerts # <<>> /\ runs = <<>>) =>
        \A k \in DOMAIN layers :
            layers[k].run = ClicksMade => Len(nodes) = opts.levels + 1

\* The place in the stack of the lowest of the circle layers of the nodes.
bottomCircleIndex(stack) ==
    LET circleLayers == {nodeObjs[n].circleLayer : n \in DOMAIN nodeObjs}
    IN  CHOOSE k \in DOMAIN stack :
            /\ stack[k] \in circleLayers
            /\ \A j \in DOMAIN stack : j > k => stack[j] \notin circleLayers

\* reorderGeneratedLayers runs, on at least one line.
ReorderStep == pc = "reorder" /\ pc' = "schedule" /\ lineInfos # <<>>

\* C16, as amended.  After reorderGeneratedLayers the line layers stand
\* in consecutive places right below the circle layer that had the greatest
\* index, the line created last first and the line created first last.
LinesBelowBottomCircle ==
    [][ReorderStep =>
          LET bottomCircle == layers[bottomCircleIndex(layers)]
              at == index(layers', bottomCircle)
          IN  \A l \in DOMAIN lineInfos :
                  /\ at + Len(lineInfos) - l + 1 \in DOMAIN layers'
                  /\ layers'[at + Len(lineInfos) - l + 1] = lineInfos[l].layer]_vars
LinesBelowWitness ==
    /\ pc = "schedule"
    /\ Len(lineInfos) >= 3
    /\ layers[bottomCircleIndex(layers) + 1] = lineInfos[Len(lineInfos)].layer
    /\ layers[bottomCircleIndex(layers) + Len(lineInfos)] = lineInfos[1].layer

\* C16 as claimed: the same places, the lines in ascending creation order.
LinesBelowInCreationOrder ==
    [][ReorderStep =>
          LET bottomCircle == layers[bottomCircleIndex(layers)]
              at == index(layers', bottomCircle)
          IN  \A l \in DOMAIN lineInfos :
                  /\ at + l \in DOMAIN layers'
                  /\ layers'[at + l] = lineInfos[l].layer]_vars

\* The activation window of node n.
Schedule(n) ==
    [inTime |-> Node(n).inTime, animStart |-> Node(n).animStart,
     animEnd |-> Node(n).animEnd, outTime |-> Node(n).outTime]

\* Every node is in the queue or was taken from it at most once, and when
\* the loop has ended every node was taken from it; the nodes were taken in
\* the order of their levels.
QueueDiscipline ==
    pc = "bfs" =>
        /\ Cardinality({(shifted \o queue)[k] : k \in 1..(Len(shifted) + Len(queue))})
               = Len(shifted) + Len(queue)
        /\ BfsEnded => Len(shifted) = Len(nodeObjs)
        /\ \A k \in DOMAIN shifted :
               k > 1 => Node(shifted[k - 1]).level <= Node(shifted[k]).level

\* A step of the loop writes no time of a node already taken from the queue.
DequeuedFrozen ==
    (pc = "bfs" /\ pc' \in {"bfs", "idle"}) =>
        \A k \in DOMAIN shifted : Schedule(shifted[k])' = Schedule(shifted[k])

\* C17.  The scheduler's queue is a breadth-first queue: every node is
\* enqueued once and dequeued once, the nodes are dequeued in non-decreasing
\* level order, and the times of a node are final when it is dequeued: no
\* later step of the run writes them.
BreadthFirstQueue == []QueueDiscipline /\ [][DequeuedFrozen]_vars
BreadthFirstWitness ==
    /\ BfsEnded
    /\ opts.levels = 3
    /\ opts.initialLines = 3
    /\ opts.childrenPerNode = 2
    /\ Len(shifted) = 22
    /\ Node(shifted[22]).level = 3

\* Every line has its draw interval and every node but the root the
\* activation window that follows from its incoming line; every node was
\* taken from the queue.
AllScheduled ==
    /\ \A l \in DOMAIN lineInfos :
           /\ lineInfos[l].startTime # Unset
           /\ lineInfos[l].endTime = NumAdd(lineInfos[l].startTime, Num(opts.lineDuration))
    /\ \A n \in DOMAIN nodeObjs :
           nodeObjs[n].incomingLine # NoLine =>
               LET line == lineInfos[nodeObjs[n].incomingLine]
                   win == childWindow(opts, line.startTime, line.endTime)
               IN  /\ nodeObjs[n].animStart = win.animStart
                   /\ nodeObjs[n].animEnd = win.animEnd
    /\ Node(0).animEnd = Num(opts.nodeDuration)
    /\ Len(shifted) = Len(nodeObjs)

\* C18.  For every tree generateStructure builds, the loop of
\* applyBranchAnimation comes to its end with the queue empty, and then
\* every node has its activation interval and every line its draw interval.
SchedulerTerminates == (pc = "schedule") ~> (BfsEnded /\ AllScheduled)
SchedulerTerminatesWitness ==
    /\ BfsEnded
    /\ AllScheduled
    /\ opts.levels = 3
    /\ opts.initialLines = 3
    /\ opts.childrenPerNode = 2
    /\ Len(lineInfos) = 21

\* The place of line l among the lines of its parent, from 0.
ChildIndex(l) ==
    LET kids == Node(lineInfos[l].parentNode).children
    IN  (CHOOSE k \in DOMAIN kids : kids[k] = l) - 1

\* C19.  With simultaneousRoot set, every line that leaves the root starts
\* at the root's animEnd, whatever its index, childStagger and randomOffset;
\* a line that leaves another node starts childStagger * i after its
\* parent's outTime, give or take the random offset (exactly, when
\* randomOffset is 0).
SimultaneousRootLines ==
    \A l \in DOMAIN lineInfos :
        (lineInfos[l].startTime # Unset /\ opts.simultaneousRoot) =>
            IF lineInfos[l].parentNode = 0
            THEN lineInfos[l].startTime = Node(0).animEnd
            ELSE LET staggered == NumAdd(Node(lineInfos[l].parentNode).outTime,
                                         Num(opts.childStagger * ChildIndex(l)))
                 IN  /\ NumLeq(NumAdd(staggered, Num(-opts.randomOffset)),
                               lineInfos[l].startTime)
                     /\ NumLeq(lineInfos[l].startTime,
                               NumAdd(staggered, Num(opts.randomOffset)))
SimultaneousRootWitness ==
    /\ BfsEnded
    /\ opts.simultaneousRoot
    /\ opts.childStagger > 0
    /\ opts.randomOffset > 0
    /\ \A l \in DOMAIN lineInfos :
           lineInfos[l].parentNode = 0 => lineInfos[l].startTime = Node(0).animEnd
    /\ \E l \in DOMAIN lineInfos :
           /\ lineInfos[l].parentNode # 0
           /\ ChildIndex(l) = 1
           /\ NumLess(Node(lineInfos[l].parentNode).outTime, lineInfos[l].startTime)

\* The nodes, other than the root, whose incoming line has been scheduled.
ScheduledChildren ==
    { n \in DOMAIN nodeObjs : /\ nodeObjs[n].incomingLine # NoLine
                              /\ lineInfos[nodeObjs[n].incomingLine].startTime # Unset }

StepwiseWindow ==
    \A n \in ScheduledChildren :
        ~opts.smoothFlow =>
            LET line == lineInfos[nodeObjs[n].incomingLine]
            IN  /\ nodeObjs[n].animStart = line.endTime
                /\ nodeObjs[n].animEnd = NumAdd(nodeObjs[n].animStart, Num(opts.nodeDuration))
StepwiseWindowWitness ==
    /\ BfsEnded
    /\ ~opts.smoothFlow
    /\ opts.nodeDuration = 0
    /\ opts.lineDuration > 0
    /\ ScheduledChildren # {}
    /\ \A n \in ScheduledChildren :
           /\ nodeObjs[n].animEnd = nodeObjs[n].animStart
           /\ nodeObjs[n].animStart = lineInfos[nodeObjs[n].incomingLine].endTime
           /\ NumLess(lineInfos[nodeObjs[n].incomingLine].startTime, nodeObjs[n].animStart)

\* The step from the end of the traversal to the return of
\* applyBranchAnimation.
FinishStep == BfsEnded /\ pc' = "idle" /\ runs' # runs

\* C22.  If maxTime <= 0 when the traversal ends, applyBranchAnimation
\* replaces it by max(nodeDuration, 1 s), and otherwise keeps it; the total
\* duration is then strictly positive, and it is the denominator of the
\* progress of every line and node.
TotalDurationPositive ==
    [][FinishStep =>
          /\ NumLeq(maxTime, Num(0)) => maxTime' = Num(Max(opts.nodeDuration, TimeScale))
          /\ NumLess(Num(0), maxTime) => maxTime' = maxTime
          /\ NumLess(Num(0), maxTime')
          /\ \A l \in DOMAIN progress'.lines :
                 /\ progress'.lines[l].startProgress.den = maxTime'
                 /\ progress'.lines[l].endProgress.den = maxTime'
          /\ \A n \in DOMAIN progress'.nodes :
                 /\ progress'.nodes[n].startProgress.den = maxTime'
                 /\ progress'.nodes[n].endProgress.den = maxTime']_vars
TotalDurationWitness ==
    /\ RunFinished
    /\ opts.nodeDuration = 0
    /\ Len(nodeObjs) > 1
    /\ \A n \in DOMAIN nodeObjs : NumLeq(nodeObjs[n].animEnd, Num(0))
    /\ maxTime = Num(TimeScale)
    /\ progress.nodes[1].endProgress.den = Num(TimeScale)

\* The node of level 1 (or the root) that the parent links from n lead to.
RECURSIVE LevelOneAncestor(_)
LevelOneAncestor(n) ==
    IF Node(n).level <= 1 THEN n ELSE LevelOneAncestor(Node(n).parent)

\* C23.  With childrenPerNode = 1 the angular offset of the only child is 0
\* (the division by childrenPerNode - 1 is not made): a node of level >= 2
\* differs from its parent's angle by its jitter draw only, every node below
\* the root has at most one child, and with angleJitter = 0 every node of a
\* chain has the angle of the level-1 node that heads it.
StraightChains ==
    (pc # "idle" /\ opts.childrenPerNode = 1) =>
        /\ childOffset(opts, 0) = 0
        /\ \A x \in DOMAIN nodeObjs :
               LET nd == nodeObjs[x]
                   reach == opts.angleJitter * AngleScale
               IN  /\ nd.level >= 1 => Len(nd.children) <= 1
                   /\ nd.level >= 2 =>
                          /\ NumLeq(NumAdd(Node(nd.parent).angle, Num(-reach)), nd.angle)
                          /\ NumLeq(nd.angle, NumAdd(Node(nd.parent).angle, Num(reach)))
                          /\ opts.angleJitter = 0 =>
                                 /\ nd.angle = Node(nd.parent).angle
                                 /\ nd.angle = Node(LevelOneAncestor(nd.id)).angle
StraightChainsWitness ==
    /\ pc = "reorder"
    /\ opts.childrenPerNode = 1
    /\ opts.angleJitter = 0
    /\ opts.branchSpread > 0
    /\ opts.levels = 3
    /\ opts.initialLines = 3
    /\ Len(nodeObjs) = 10
    /\ \E x \in DOMAIN nodeObjs :
           /\ nodeObjs[x].level = 3
           /\ nodeObjs[x].angle = Num(240 * AngleScale)
           /\ LevelOneAncestor(nodeObjs[x].id) = 3

\* generateStructure is running, or has returned, on options without a
\* spoke.
NoSpokes == (pc # "idle" \/ RunFinished) /\ opts.initialLines = 0

\* The root has its times: applyBranchAnimation has passed line 1336.
RootTimed == pc = "bfs" \/ RunFinished

\* Nothing but the root was built, and the root, once timed, is active from
\* 0 to nodeDuration.
OnlyTheRoot ==
    NoSpokes =>
        /\ Len(nodeObjs) = 1
        /\ Node(0).level = 0
        /\ Node(0).children = <<>>
        /\ lineInfos = <<>>
        /\ \A lvl \in DOMAIN nodes : lvl >= 2 => nodes[lvl] = <<>>
        /\ levelNodes = <<>>
        /\ alerts = <<>>
        /\ RootTimed =>
               /\ Schedule(0) = [inTime |-> Num(0), animStart |-> Num(0),
                                 animEnd |-> Num(opts.nodeDuration),
                                 outTime |-> Num(opts.nodeDuration)]
               /\ shifted \o queue = <<0>>

\* C24.  With initialLines = 0 and levels >= 1 generateStructure builds the
\* root alone (no node of level 1 or deeper, no line) and raises no error;
\* reorderGeneratedLayers leaves the stack as it is; the scheduler gives the
\* root the interval from 0 to nodeDuration.
ChildlessRoot ==
    /\ []OnlyTheRoot
    /\ [][(NoSpokes /\ pc = "reorder" /\ pc' = "schedule") => layers' = layers]_vars
ChildlessRootWitness ==
    /\ RunFinished
    /\ opts.initialLines = 0
    /\ opts.levels = 2
    /\ Len(nodes) = 3
    /\ Len(runs) = 2
    /\ runs[1].opts.initialLines = 2
    /\ Len(runs[2].nodeObjs) = 1
    /\ maxTime = Num(opts.nodeDuration)
    /\ \E k \in DOMAIN layers : layers[k] = Layer("circle", 0, 2)

\* A pass of a loop of generateStructure adds a node.
NodeAdded == pc = "build" /\ Len(nodeObjs') = Len(nodeObjs) + 1

\* The radius of the node a pass adds, from the generator's state before
\* the pass: the draw for the angle comes first, then the draw for the
\* radius, each only when its jitter is positive.
RadiusOfNewNode ==
    LET new == nodeObjs'[Len(nodeObjs')]
        afterAngle == IF opts.angleJitter > 0 THEN nextState(rng) ELSE rng
        jitterDraw == IF opts.radiusJitter > 0
                      THEN range(afterAngle, -opts.radiusJitter, opts.radiusJitter).result
                      ELSE Num(0)
        sum == NumAdd(Num(opts.baseRadius + (new.level - 1) * opts.radiusStep), jitterDraw)
    IN  /\ NumLeq(Num(MinRadius), sum) => new.radius = sum
        /\ NumLess(sum, Num(MinRadius)) => new.radius = Num(MinRadius)
        /\ opts.radiusJitter <= 0 => rng' = afterAngle
        /\ opts.radiusJitter > 0 => rng' = nextState(afterAngle)

\* C25.  Every node but the root has a radius of at least 5, whatever the
\* options (radiusJitter above baseRadius included); the radius is
\* baseRadius + (level - 1) * radiusStep + jitterDraw whenever that sum is
\* at least 5; with radiusJitter <= 0 jitterDraw is 0 and the generator is
\* not advanced for the radius.
RadiusFloor ==
    /\ [](\A x \in DOMAIN nodeObjs :
              nodeObjs[x].level >= 1 => NumLeq(Num(MinRadius), nodeObjs[x].radius))
    /\ [][NodeAdded => RadiusOfNewNode]_vars
RadiusFloorWitness ==
    /\ pc = "reorder"
    /\ opts.radiusJitter > opts.baseRadius
    /\ opts.levels = 3
    /\ \E x \in DOMAIN nodeObjs : /\ nodeObjs[x].level >= 1
                                  /\ nodeObjs[x].radius = Num(MinRadius)
    /\ \E x \in DOMAIN nodeObjs : /\ NumLess(Num(MinRadius), nodeObjs[x].radius)
                                  /\ nodeObjs[x].radius.r # 0

\* The layers the running click has put into the composition.
LayersOfRun == { k \in DOMAIN layers : layers[k].run = clickNumber }

\* The scheduler has finished: its loop has ended on a queue it had started.
SchedulerFinished == BfsEnded /\ shifted # <<>>

\* C26.  Within one run the stages follow one another as generator, tree
\* build, timeline scheduling, scene projection, layer reordering: no layer
\* of the run exists before the scheduler has finished, and the layers are
\* reordered only after the scheduling.
StagesInOrder ==
    /\ []((pc # "idle" /\ ~SchedulerFinished) => LayersOfRun = {})
    /\ [][(pc = "reorder" /\ pc' # "reorder") => AllScheduled]_vars

\* C27.  In every state of a generator made by createRng, for the seed of
\* generateStructure and for the derived seed of the scheduler, the internal
\* state is an integer of 1..2147483646: never 0, at the start or after any
\* number of draws.
GeneratorStateInRange ==
    \A g \in {rng, schedRng} \ {NoGenerator} : g \in 1..Den

\* The geometry of the nodes of a run: id, level, angle, radius, position.
Geometry(objs) ==
    [x \in DOMAIN objs |->
        [id |-> objs[x].id, level |-> objs[x].level, angle |-> objs[x].angle,
         radius |-> objs[x].radius, position |-> objs[x].position]]

\* The names of the structure options and of the timing options.
StructureOptions ==
    {"initialLines", "levels", "childrenPerNode", "baseRadius", "radiusStep",
     "radiusJitter", "angleJitter", "branchSpread"}
TimingOptions ==
    {"lineDuration", "nodeDuration", "childStagger", "randomOffset",
     "simultaneousRoot", "smoothFlow"}

\* Two option sets agree in every structure option.
SameStructure(o1, o2) == \A f \in StructureOptions : o1[f] = o2[f]

\* C28.  The geometry of the tree does not depend on the timing options:
\* two runs with the same seed and the same structure options have the same
\* node ids, levels, angles and radii, whatever their nodeDuration,
\* lineDuration, childStagger, randomOffset, simultaneousRoot and smoothFlow;
\* and no step of the scheduler advances the generator of the geometry.
GeometryIgnoresTiming ==
    /\ [](\A a \in DOMAIN runs : \A b \in DOMAIN runs :
              (SameStructure(runs[a].opts, runs[b].opts)
                   /\ runs[a].opts.seed = runs[b].opts.seed)
                  => Geometry(runs[a].nodeObjs) = Geometry(runs[b].nodeObjs))
    /\ [][(pc \in {"schedule", "bfs"}) => rng' = rng]_vars
GeometryIgnoresTimingWitness ==
    /\ Len(runs) = 2
    /\ runs[1].opts.seed = runs[2].opts.seed
    /\ SameStructure(runs[1].opts, runs[2].opts)
    /\ \A f \in TimingOptions : runs[1].opts[f] # runs[2].opts[f]
    /\ runs[1].opts.angleJitter > 0 /\ runs[1].opts.radiusJitter > 0
    /\ Len(runs[2].nodeObjs) = 7
    /\ Layout(runs[1].lineInfos) # Layout(runs[2].lineInfos)
    /\ runs[1].maxTime # runs[2].maxTime

\* Two option sets agree in everything but the seed.
SameButSeed(o1, o2) == [o1 EXCEPT !.seed = 0] = [o2 EXCEPT !.seed = 0]

\* C30.  A run with seed 0 has the geometry of the run with seed 1 and
\* otherwise equal options (the same angle, radius and position for every
\* node), since generateStructure seeds its generator with opts.seed || 1,
\* that is with 1 in both runs; the scheduler's generator is seeded with
\* 123987 in the run with seed 0 and with 1 * 17 + 53 = 70 in the other.
SeedZeroIsSeedOne ==
    /\ \A a \in DOMAIN runs : \A b \in DOMAIN runs :
           (SameButSeed(runs[a].opts, runs[b].opts)
                /\ runs[a].opts.seed = 0 /\ runs[b].opts.seed = 1)
               => Geometry(runs[a].nodeObjs) = Geometry(runs[b].nodeObjs)
    /\ (pc = "build" /\ nodeSerial = 1 /\ opts.seed \in {0, 1}) => rng = 1
    /\ (pc = "bfs" /\ shifted = <<>> /\ opts.seed = 0)
           => schedRng = FallbackSchedulerSeed
    /\ (pc = "bfs" /\ shifted = <<>> /\ opts.seed = 1) => schedRng = 70
SeedZeroIsSeedOneWitness ==
    /\ Len(runs) = 2
    /\ runs[1].opts.seed = 0 /\ runs[2].opts.seed = 1
    /\ SameButSeed(runs[1].opts, runs[2].opts)
    /\ runs[1].opts.angleJitter > 0 /\ runs[1].opts.radiusJitter > 0
    /\ runs[1].opts.randomOffset > 0 /\ ~runs[1].opts.simultaneousRoot
    /\ Len(runs[2].nodeObjs) = 7
    /\ Geometry(runs[1].nodeObjs) = Geometry(runs[2].nodeObjs)
    /\ Layout(runs[1].lineInfos) # Layout(runs[2].lineInfos)

\* The layers of a stack that are not lines of the tree being built, in
\* their order.
OtherLayers(stack) ==
    LET lineSet == {lineInfos[l].layer : l \in DOMAIN lineInfos}
        NotLine(x) == x \notin lineSet
    IN  SelectSeq(stack, NotLine)

\* C29.  reorderGeneratedLayers moves line layers only: the layers that are
\* not lines of the tree (the nulls and circles of the nodes, the layers
\* that were in the composition before) keep their order, no layer is lost
\* or added, and without a line layer, or without a circle layer, the stack
\* stays as it is.
OnlyLinesMove ==
    [][ReorderTaken =>
          /\ OtherLayers(layers') = OtherLayers(layers)
          /\ Len(layers') = Len(layers)
          /\ {layers'[k] : k \in DOMAIN layers'} = {layers[k] : k \in DOMAIN layers}
          /\ lineInfos = <<>> => layers' = layers
          /\ reorderGeneratedLayers(layers, <<>>, lineInfos) = layers]_vars
OnlyLinesMoveWitness ==
    /\ pc = "schedule"
    /\ Len(runs) = 1
    /\ Len(runs[1].lineInfos) = 6
    /\ Len(lineInfos) = 6
    /\ layers[1] = Layer("circle", 6, 2)
    /\ layers[Len(layers)] = Layer("null", 0, 1)
    /\ \E k \in DOMAIN layers : layers[k].kind = "control"
    /\ \E k \in DOMAIN layers : /\ layers[k] = Layer("circle", 0, 2)
                                /\ layers[k + 1] = Layer("line", 6, 2)
                                /\ layers[k + 6] = Layer("line", 1, 2)
                                /\ layers[k + 7] = Layer("null", 0, 2)

====
